---- MODULE Spec2Model ----
(***************************************************************************)
(* Message debouncing of pocketflow-chat (src/main.py): every webhook is   *)
(* pushed to a per-chat Redis list, check_message_flow decides between     *)
(* "prosseguir" and "esperar", and process_buffer_messages drains the list *)
(* (LRANGE, then DEL), sorts the messages by timestamp and prints the      *)
(* consolidated entry.  One step of the model is one Redis command of one  *)
(* request together with the local computation that follows it.  Spec is   *)
(* send_message on a Redis that answers and that only send_message writes; *)
(* SpecEnv adds outages, cleanup_messages and writes of other clients;     *)
(* SpecBurst is a single consolidation of a burst.                         *)
(***************************************************************************)
EXTENDS Integers, Sequences, FiniteSets, TLC

(* ------------------------------ bounds --------------------------------- *)
\* Requests followed through send_message, the largest wall-clock reading of a
\* webhook, and the largest burst handed to one consolidation.
MaxReq == 2
MaxTs == 1
MaxBurst == 3

\* Outages of the Redis, pushes by other clients and cleanups in a behaviour.
MaxEvents == 2

(* ------------------------- program constants --------------------------- *)
Window == 3
SleepFor == 3

\* No request sleeps after MaxTs + Window, so every sleeper is awake by Horizon
\* and every later decision on a parsable timestamp is the same.
Horizon == MaxTs + Window + SleepFor

Requests == 1..MaxReq
Slots == 1..(IF MaxBurst > MaxReq THEN MaxBurst ELSE MaxReq)
Chats == {"c1", "c2"}

PROCEED == "prosseguir"
WAIT == "esperar"
SUPERSEDED == "superseded"

(* ------------------------------ strings -------------------------------- *)
\* A string is a sequence of characters; the four characters the code treats
\* specially are named, every other character stands for itself.
Q == "dquote"
BT == "backtick"
NL == "newline"
BS == "backslash"

\* The concatenation of the first n strings of ss.
RECURSIVE Concat(_, _)
Concat(ss, n) == IF n = 0 THEN <<>> ELSE Concat(ss, n - 1) \o ss[n]

\* str.join: the first n parts with sep between them.
RECURSIVE join_to(_, _, _)
join_to(sep, parts, n) ==
  IF n = 0 THEN <<>>
  ELSE IF n = 1 THEN parts[1]
  ELSE join_to(sep, parts, n - 1) \o sep \o parts[n]

join(sep, parts) == join_to(sep, parts, Len(parts))

\* The replace that stops after the first occurrence.
replace_first(s, old, new) ==
  Concat([i \in 1..Len(s) |->
            IF s[i] = old /\ (\A j \in 1..(i - 1) : s[j] # old) THEN new ELSE <<s[i]>>],
         Len(s))

\* str.replace(old, new) for a one-character old
replace(s, old, new) ==
  Concat([i \in 1..Len(s) |-> IF s[i] = old THEN new ELSE <<s[i]>>], Len(s))

(* ------------------------------- JSON ---------------------------------- *)
\* The string escaping of json.dumps and its inverse in json.loads.
json_escape(s) ==
  Concat([i \in 1..Len(s) |->
            IF s[i] = Q THEN <<BS, Q>>
            ELSE IF s[i] = NL THEN <<BS, "n">>
            ELSE IF s[i] = BS THEN <<BS, BS>>
            ELSE <<s[i]>>], Len(s))

RECURSIVE json_unescape(_)
json_unescape(s) ==
  IF s = <<>> THEN <<>>
  ELSE IF s[1] = BS /\ Len(s) >= 2
       THEN <<(IF s[2] = "n" THEN NL ELSE s[2])>> \o json_unescape(SubSeq(s, 3, Len(s)))
       ELSE <<s[1]>> \o json_unescape(Tail(s))

\* A timestamp string: a wall-clock reading with a UTC offset, or text that
\* dateutil cannot parse (ok = FALSE).
DateTime(w, o) == [ok |-> TRUE, wall |-> w, off |-> o]
BadDateTime == [ok |-> FALSE, wall |-> 0, off |-> 0]

parse_timestamp(ts) == ts.wall - ts.off

Message(id, chat, content, ts) ==
  [message_id |-> id, chat_id |-> chat, content |-> content, timestamp |-> ts]

map_webhook_to_message(webhook) ==
  Message(webhook.id, webhook.remoteJid,
          IF webhook.conversation.none THEN <<>> ELSE webhook.conversation.text,
          webhook.date_time)

\* json.dumps(message.dict()): the stored list element.
json_dumps(m) == <<m.message_id, m.chat_id, json_escape(m.content), m.timestamp>>

\* Message(**json.loads(msg))
json_loads(e) == Message(e[1], e[2], json_unescape(e[3]), e[4])

\* The first element, where the code takes messages[-1].
Last_first(list) == list[1]

Last(list) == list[Len(list)]

(* ------------------------------- Redis --------------------------------- *)
\* The key that is the same for every chat.
key_shared(chat_id) == "c1"

\* The key of the list of a chat, f"chat:{chat_id}": one key per chat.
key(chat_id) == chat_id

\* An element that is not the JSON of a Message, as only a client of the
\* Redis other than send_message can write it, and the test that
\* Message(**json.loads(msg)) accepts an element.
Garbage == <<0>>
well_formed(e) == Len(e) = 4

\* The RPUSH that appends where LPUSH prepends.
lpush_tail(list, e) == Append(list, e)

lpush(list, e) == <<e>> \o list
lrange(list) == list

\* The LPOP that removes one element where DEL removes the key.
delete_lpop(list) == IF list = <<>> THEN <<>> ELSE Tail(list)

delete(list) == <<>>

(* --------------------------- check_message_flow ------------------------ *)
RAISED == "raised"

\* The decision with >= where the code has >.
check_message_flow_ge(up, buffer, current_ts) ==
  IF ~up THEN PROCEED
  ELSE IF buffer = <<>> THEN PROCEED
  ELSE IF \E i \in 1..Len(buffer) : ~well_formed(buffer[i]) THEN PROCEED
  ELSE LET messages == [i \in 1..Len(buffer) |-> json_loads(buffer[i])]
           last_message == messages[1]
       IN IF ~last_message.timestamp.ok THEN PROCEED
          ELSE IF current_ts - parse_timestamp(last_message.timestamp) >= Window
               THEN PROCEED
               ELSE WAIT

\* The try block that takes messages[-1], the oldest element, as last_message.
check_message_flow_try_oldest(up, buffer, current_ts) ==
  IF ~up THEN RAISED
  ELSE IF buffer = <<>> THEN PROCEED
  ELSE IF \E i \in 1..Len(buffer) : ~well_formed(buffer[i]) THEN RAISED
  ELSE LET messages == [i \in 1..Len(buffer) |-> json_loads(buffer[i])]
           last_message == messages[Len(messages)]
       IN IF ~last_message.timestamp.ok THEN RAISED
          ELSE IF current_ts - parse_timestamp(last_message.timestamp) > Window
               THEN PROCEED
               ELSE WAIT

\* The try block of check_message_flow: the decision it returns, or RAISED
\* when the LRANGE fails (up = FALSE), an element is not a Message, or the
\* timestamp of messages[0] does not parse.
check_message_flow_try(up, buffer, current_ts) ==
  IF ~up THEN RAISED
  ELSE IF buffer = <<>> THEN PROCEED
  ELSE IF \E i \in 1..Len(buffer) : ~well_formed(buffer[i]) THEN RAISED
  ELSE LET messages == [i \in 1..Len(buffer) |-> json_loads(buffer[i])]
           last_message == messages[1]
       IN IF ~last_message.timestamp.ok THEN RAISED
          ELSE IF current_ts - parse_timestamp(last_message.timestamp) > Window
               THEN PROCEED
               ELSE WAIT

\* The handler that answers every exception with WAIT.
check_message_flow_closed(up, buffer, current_ts) ==
  LET decision == check_message_flow_try(up, buffer, current_ts)
  IN IF decision = RAISED THEN WAIT ELSE decision

\* The try block under its except clause, which returns "prosseguir".
check_message_flow(up, buffer, current_ts) ==
  LET decision == check_message_flow_try(up, buffer, current_ts)
  IN IF decision = RAISED THEN PROCEED ELSE decision

(* ------------------------ process_buffer_messages ---------------------- *)
\* list.sort(key=...): stable, ascending by key.
\* The insertion that puts an element before its equals.
RECURSIVE insert_unstable(_, _)
insert_unstable(sorted, m) ==
  IF sorted = <<>> THEN <<m>>
  ELSE LET last == sorted[Len(sorted)]
       IN IF parse_timestamp(last.timestamp) < parse_timestamp(m.timestamp)
          THEN Append(sorted, m)
          ELSE Append(insert_unstable(SubSeq(sorted, 1, Len(sorted) - 1), m), last)

RECURSIVE insert(_, _)
insert(sorted, m) ==
  IF sorted = <<>> THEN <<m>>
  ELSE LET last == sorted[Len(sorted)]
       IN IF parse_timestamp(last.timestamp) <= parse_timestamp(m.timestamp)
          THEN Append(sorted, m)
          ELSE Append(insert(SubSeq(sorted, 1, Len(sorted) - 1), m), last)

RECURSIVE sort(_)
sort(ms) ==
  IF ms = <<>> THEN <<>>
  ELSE insert(sort(SubSeq(ms, 1, Len(ms) - 1)), ms[Len(ms)])

content_parts(ms) == [i \in 1..Len(ms) |-> ms[i].content]

\* What process_buffer_messages raises on the list it read: "empty" for the
\* ValueError, "json" for an element that is not a Message, "parse" for a
\* timestamp the sort key cannot parse, "none".
fault(buffer_messages) ==
  IF buffer_messages = <<>> THEN "empty"
  ELSE IF \E i \in 1..Len(buffer_messages) : ~well_formed(buffer_messages[i]) THEN "json"
  ELSE IF \E i \in 1..Len(buffer_messages) : ~json_loads(buffer_messages[i]).timestamp.ok
       THEN "parse"
       ELSE "none"

sorted_messages(buffer_messages) ==
  sort([i \in 1..Len(buffer_messages) |-> json_loads(buffer_messages[i])])

(* ------------------------------- inputs -------------------------------- *)
Text(s) == [none |-> FALSE, text |-> s]
NoText == [none |-> TRUE, text |-> <<>>]

Webhook(r, c, conv, dt) == [id |-> r, remoteJid |-> c, conversation |-> conv, date_time |-> dt]

\* Webhooks of the concurrent specification.
DateTimes == {DateTime(w, 0) : w \in 0..MaxTs} \cup {BadDateTime}
Conversations == {Text(<<"h", "i">>)}

\* Webhooks of a burst: offsets, ties, and the characters that are escaped.
BurstDateTimes ==
  {DateTime(0, 0), DateTime(1, 0), DateTime(3, 2), DateTime(2, 0), BadDateTime}
BurstConversations ==
  {NoText, Text(<<"h", "i">>), Text(<<Q, "a", Q>>), Text(<<"b", NL, BT, BS, "n">>)}

(* ------------------------------- state --------------------------------- *)
\* now, redis, redis_up: the clock, the Redis lists by key, and whether the
\* Redis answers.  pc, message, flow_status, wake, buffer_messages, response:
\* the position and locals of each send_message (response is response_data,
\* or the HTTPException).  cleanup: the position and chat_keys of
\* cleanup_messages.  sink: the entries printed for the database, each with
\* the list its drain read and the request that drained.  History kept for
\* the properties: atPush (at the LPUSH of a request, the messages already
\* buffered, the requests of the chat still waiting, the time), lastCmd (the
\* last command on each list), calls (how often a request ran the arbiter,
\* slept, drained), pushed (the elements pushed to each list since its last
\* DEL, oldest first), events (how many outages, foreign pushes and cleanups
\* there were).
VARIABLES now, redis, redis_up, pc, message, flow_status, wake, buffer_messages, response,
          cleanup, sink, atPush, lastCmd, calls, pushed, events

vars == <<now, redis, redis_up, pc, message, flow_status, wake, buffer_messages, response,
          cleanup, sink, atPush, lastCmd, calls, pushed, events>>

NoMessage == Message(0, "", <<>>, BadDateTime)
NoResponse == [status |-> "none", flow_status |-> "none", last_message |-> 0, detail |-> ""]
NoCalls == [arbiter |-> 0, sleeps |-> 0, drains |-> 0]
NotPushed == [buffered |-> {}, pending |-> {}, at |-> 0]
NoCleanup == [pc |-> "idle", chat_keys |-> {}]

\* The HTTPException of status 500 that send_message raises on an exception.
HTTPException(detail) ==
  [status |-> "error", flow_status |-> "none", last_message |-> 0, detail |-> detail]

ids(list) == {list[i][1] : i \in 1..Len(list)}

Init ==
  /\ now = 0
  /\ redis = [c \in Chats |-> <<>>]
  /\ redis_up = TRUE
  /\ pc = [r \in Slots |-> "idle"]
  /\ message = [r \in Slots |-> NoMessage]
  /\ flow_status = [r \in Slots |-> "none"]
  /\ wake = [r \in Slots |-> 0]
  /\ buffer_messages = [r \in Slots |-> <<>>]
  /\ response = [r \in Slots |-> NoResponse]
  /\ cleanup = NoCleanup
  /\ sink = <<>>
  /\ atPush = [r \in Slots |-> NotPushed]
  /\ lastCmd = [c \in Chats |-> "none"]
  /\ calls = [r \in Slots |-> NoCalls]
  /\ pushed = [c \in Chats |-> <<>>]
  /\ events = 0

\* The clock of the server advances by a second.  send_message yields only
\* in asyncio.sleep: the stretch from the LPUSH to the sleep or the return,
\* and the one after the sleep, are over within the second they start in,
\* and so is cleanup_messages.
Tick ==
  /\ now < Horizon
  /\ \A r \in Requests : pc[r] \in {"idle", "sleep", "done"}
  /\ cleanup.pc = "idle"
  /\ now' = now + 1
  /\ UNCHANGED <<redis, redis_up, pc, message, flow_status, wake, buffer_messages, response,
                 cleanup, sink, atPush, lastCmd, calls, pushed, events>>

\* A request whose wait is not over.
Pending(r) == pc[r] = "check" \/ (pc[r] = "sleep" /\ now < wake[r])

\* send_message up to the LPUSH.  Requests are numbered in arrival order.
Receive(r, webhook) ==
  /\ pc[r] = "idle"
  /\ IF r = 1 THEN TRUE ELSE pc[r - 1] # "idle"
  /\ LET m == map_webhook_to_message(webhook)
     IN /\ message' = [message EXCEPT ![r] = m]
        /\ IF redis_up
           THEN /\ redis' = [redis EXCEPT ![key(m.chat_id)] = lpush(@, json_dumps(m))]
                /\ atPush' = [atPush EXCEPT ![r] =
                                [buffered |-> ids(redis[key(m.chat_id)]),
                                 pending |-> {q \in Requests :
                                                Pending(q) /\ message[q].chat_id = m.chat_id},
                                 at |-> now]]
                /\ lastCmd' = [lastCmd EXCEPT ![key(m.chat_id)] = "lpush"]
                /\ pushed' = [pushed EXCEPT ![key(m.chat_id)] = Append(@, json_dumps(m))]
                /\ pc' = [pc EXCEPT ![r] = "check"]
                /\ UNCHANGED response
           ELSE /\ response' = [response EXCEPT ![r] = HTTPException("store")]
                /\ pc' = [pc EXCEPT ![r] = "done"]
                /\ UNCHANGED <<redis, atPush, lastCmd, pushed>>
  /\ UNCHANGED <<now, redis_up, flow_status, wake, buffer_messages, cleanup, sink, calls, events>>

\* The branch that sleeps on every WAIT, a loop where the code has an if.
AfterDecision_loop(r, status, first) ==
  /\ flow_status' = [flow_status EXCEPT ![r] = status]
  /\ response' = [response EXCEPT ![r].flow_status = status]
  /\ IF status = WAIT
     THEN /\ pc' = [pc EXCEPT ![r] = "sleep"]
          /\ wake' = [wake EXCEPT ![r] = now + SleepFor]
          /\ calls' = [calls EXCEPT ![r].arbiter = @ + 1, ![r].sleeps = @ + 1]
     ELSE /\ pc' = [pc EXCEPT ![r] = "drain"]
          /\ wake' = [wake EXCEPT ![r] = 0]
          /\ calls' = [calls EXCEPT ![r].arbiter = @ + 1]

\* The branch that leaves response_data["flow_status"] as the first decision.
AfterDecision_stale(r, status, first) ==
  /\ flow_status' = [flow_status EXCEPT ![r] = status]
  /\ IF status = WAIT /\ first
     THEN /\ pc' = [pc EXCEPT ![r] = "sleep"]
          /\ wake' = [wake EXCEPT ![r] = now + SleepFor]
          /\ calls' = [calls EXCEPT ![r].arbiter = @ + 1, ![r].sleeps = @ + 1]
          /\ response' = [response EXCEPT ![r].flow_status = status]
     ELSE IF status = PROCEED
     THEN /\ pc' = [pc EXCEPT ![r] = "drain"]
          /\ wake' = [wake EXCEPT ![r] = 0]
          /\ calls' = [calls EXCEPT ![r].arbiter = @ + 1]
          /\ response' = [response EXCEPT ![r].flow_status = IF first THEN status ELSE @]
     ELSE /\ pc' = [pc EXCEPT ![r] = "done"]
          /\ wake' = [wake EXCEPT ![r] = 0]
          /\ calls' = [calls EXCEPT ![r].arbiter = @ + 1]
          /\ response' = [response EXCEPT ![r].flow_status = IF first THEN status ELSE @,
                                          ![r].status = "success"]

\* The branch of send_message on a decision: response_data takes the
\* decision, then the request sleeps, consolidates, or returns.
AfterDecision(r, status, first) ==
  /\ flow_status' = [flow_status EXCEPT ![r] = status]
  /\ IF status = WAIT /\ first
     THEN /\ pc' = [pc EXCEPT ![r] = "sleep"]
          /\ wake' = [wake EXCEPT ![r] = now + SleepFor]
          /\ calls' = [calls EXCEPT ![r].arbiter = @ + 1, ![r].sleeps = @ + 1]
          /\ response' = [response EXCEPT ![r].flow_status = status]
     ELSE IF status = PROCEED
     THEN /\ pc' = [pc EXCEPT ![r] = "drain"]
          /\ wake' = [wake EXCEPT ![r] = 0]
          /\ calls' = [calls EXCEPT ![r].arbiter = @ + 1]
          /\ response' = [response EXCEPT ![r].flow_status = status]
     ELSE /\ pc' = [pc EXCEPT ![r] = "done"]
          /\ wake' = [wake EXCEPT ![r] = 0]
          /\ calls' = [calls EXCEPT ![r].arbiter = @ + 1]
          /\ response' = [response EXCEPT ![r].flow_status = status, ![r].status = "success"]

\* The first check_message_flow of send_message.
Check(r) ==
  /\ pc[r] = "check"
  /\ AfterDecision(r, check_message_flow(redis_up, lrange(redis[key(message[r].chat_id)]), now),
                   TRUE)
  /\ UNCHANGED <<now, redis, redis_up, message, buffer_messages, cleanup, sink, atPush,
                 lastCmd, pushed, events>>

\* asyncio.sleep(3) returns and check_message_flow runs again.
Recheck(r) ==
  /\ pc[r] = "sleep"
  /\ now >= wake[r]
  /\ AfterDecision(r, check_message_flow(redis_up, lrange(redis[key(message[r].chat_id)]), now),
                   FALSE)
  /\ UNCHANGED <<now, redis, redis_up, message, buffer_messages, cleanup, sink, atPush,
                 lastCmd, pushed, events>>

\* process_buffer_messages: the LRANGE, which raises when the Redis is down.
DrainRead(r) ==
  /\ pc[r] = "drain"
  /\ calls' = [calls EXCEPT ![r].drains = @ + 1]
  /\ IF redis_up
     THEN /\ buffer_messages' =
               [buffer_messages EXCEPT ![r] = lrange(redis[key(message[r].chat_id)])]
          /\ pc' = [pc EXCEPT ![r] = "delete"]
          /\ UNCHANGED response
     ELSE /\ response' = [response EXCEPT ![r] = HTTPException("store")]
          /\ pc' = [pc EXCEPT ![r] = "done"]
          /\ UNCHANGED buffer_messages
  /\ UNCHANGED <<now, redis, redis_up, message, flow_status, wake, cleanup, sink, atPush,
                 lastCmd, pushed, events>>

\* process_buffer_messages: the DEL and everything after it.  The locals
\* messages and formatted_content are bound once, as the code assigns them.
DrainDelete(r) ==
  /\ pc[r] = "delete"
  /\ IF ~redis_up
     THEN /\ response' = [response EXCEPT ![r] = HTTPException("store")]
          /\ UNCHANGED <<redis, lastCmd, pushed, sink>>
     ELSE /\ redis' = [redis EXCEPT ![key(message[r].chat_id)] = delete(@)]
          /\ lastCmd' = [lastCmd EXCEPT ![key(message[r].chat_id)] = "del"]
          /\ pushed' = [pushed EXCEPT ![key(message[r].chat_id)] = <<>>]
          /\ IF fault(buffer_messages[r]) # "none"
             THEN /\ response' = [response EXCEPT ![r] = HTTPException(fault(buffer_messages[r]))]
                  /\ UNCHANGED sink
             ELSE \E messages \in {sorted_messages(buffer_messages[r])} :
                  \E formatted_content \in {join(<<NL>>, content_parts(messages))} :
                    /\ sink' = Append(sink, [content |-> replace(formatted_content, Q, <<BT>>),
                                              read |-> buffer_messages[r],
                                              by |-> r])
                    /\ response' = [response EXCEPT ![r].status = "success",
                                                    ![r].last_message = Last(messages).message_id]
  /\ buffer_messages' = [buffer_messages EXCEPT ![r] = <<>>]
  /\ pc' = [pc EXCEPT ![r] = "done"]
  /\ UNCHANGED <<now, redis_up, message, flow_status, wake, cleanup, atPush, calls, events>>

Next ==
  \/ Tick
  \/ \E r \in Requests, c \in Chats, conv \in Conversations, dt \in DateTimes :
        Receive(r, Webhook(r, c, conv, dt))
  \/ \E r \in Requests : Check(r)
  \/ \E r \in Requests : Recheck(r)
  \/ \E r \in Requests : DrainRead(r)
  \/ \E r \in Requests : DrainDelete(r)

Spec == Init /\ [][Next]_vars

\* Every request that can take a step takes it, and time passes.
FairSpec ==
  /\ Spec
  /\ WF_vars(Tick)
  /\ \A r \in Requests :
       /\ WF_vars(Check(r))
       /\ WF_vars(Recheck(r))
       /\ WF_vars(DrainRead(r))
       /\ WF_vars(DrainDelete(r))

(* ------------------- the Redis and its other clients ------------------- *)
\* The Redis stops answering, and answers again.
Outage ==
  /\ events < MaxEvents
  /\ redis_up
  /\ redis_up' = FALSE
  /\ events' = events + 1
  /\ UNCHANGED <<now, redis, pc, message, flow_status, wake, buffer_messages, response,
                 cleanup, sink, atPush, lastCmd, calls, pushed>>

Recovery ==
  /\ ~redis_up
  /\ redis_up' = TRUE
  /\ UNCHANGED <<now, redis, pc, message, flow_status, wake, buffer_messages, response,
                 cleanup, sink, atPush, lastCmd, calls, pushed, events>>

\* Another client of the Redis pushes an element that is not a Message to
\* the list of a chat; one such element at a time.
ForeignPush(c) ==
  /\ events < MaxEvents
  /\ redis_up
  /\ \A d \in Chats : \A i \in 1..Len(redis[d]) : well_formed(redis[d][i])
  /\ redis' = [redis EXCEPT ![key(c)] = lpush(@, Garbage)]
  /\ lastCmd' = [lastCmd EXCEPT ![key(c)] = "lpush"]
  /\ pushed' = [pushed EXCEPT ![key(c)] = Append(@, Garbage)]
  /\ events' = events + 1
  /\ UNCHANGED <<now, redis_up, pc, message, flow_status, wake, buffer_messages, response,
                 cleanup, sink, atPush, calls>>

\* cleanup_messages: KEYS chat:*, the keys of the lists that are not empty,
\* and when there are any, a DEL of them.
CleanupKeys ==
  /\ events < MaxEvents
  /\ cleanup.pc = "idle"
  /\ redis_up
  /\ {c \in Chats : redis[key(c)] # <<>>} # {}
  /\ cleanup' = [pc |-> "delete", chat_keys |-> {key(c) : c \in {d \in Chats : redis[key(d)] # <<>>}}]
  /\ events' = events + 1
  /\ UNCHANGED <<now, redis, redis_up, pc, message, flow_status, wake, buffer_messages,
                 response, sink, atPush, lastCmd, calls, pushed>>

CleanupDelete ==
  /\ cleanup.pc = "delete"
  /\ cleanup' = NoCleanup
  /\ IF redis_up
     THEN /\ redis' = [k \in Chats |-> IF k \in cleanup.chat_keys THEN delete(redis[k]) ELSE redis[k]]
          /\ lastCmd' = [k \in Chats |-> IF k \in cleanup.chat_keys THEN "del" ELSE lastCmd[k]]
          /\ pushed' = [k \in Chats |-> IF k \in cleanup.chat_keys THEN <<>> ELSE pushed[k]]
     ELSE UNCHANGED <<redis, lastCmd, pushed>>
  /\ UNCHANGED <<now, redis_up, pc, message, flow_status, wake, buffer_messages, response,
                 sink, atPush, calls, events>>

NextEnv ==
  \/ Next
  \/ Outage
  \/ Recovery
  \/ \E c \in Chats : ForeignPush(c)
  \/ CleanupKeys
  \/ CleanupDelete

\* send_message with a Redis that fails, is written to by other clients, and
\* is cleaned up.
SpecEnv == Init /\ [][NextEnv]_vars

(* --------------------- a burst handed to one drain --------------------- *)
\* The list after the webhooks ws[1], ..., ws[n] of one chat were pushed in turn.
RECURSIVE PushAll(_, _)
PushAll(ws, n) ==
  IF n = 0 THEN <<>>
  ELSE lpush(PushAll(ws, n - 1), json_dumps(map_webhook_to_message(ws[n])))

\* Requests 1..n have pushed late webhooks of chat c1 at time Horizon, and
\* request 1, the first to be arbitrated, was told to proceed.
InitBurst ==
  \E n \in 1..MaxBurst :
    \E inp \in [1..n -> BurstConversations \X BurstDateTimes] :
      LET ws == [r \in 1..n |-> Webhook(r, "c1", inp[r][1], inp[r][2])]
      IN /\ check_message_flow(TRUE, PushAll(ws, n), Horizon) = PROCEED
         /\ now = Horizon
         /\ redis = [c \in Chats |-> IF c = "c1" THEN PushAll(ws, n) ELSE <<>>]
         /\ redis_up = TRUE
         /\ pc = [r \in Slots |-> IF r = 1 THEN "drain" ELSE IF r <= n THEN "check" ELSE "idle"]
         /\ message = [r \in Slots |->
                         IF r <= n THEN map_webhook_to_message(ws[r]) ELSE NoMessage]
         /\ flow_status = [r \in Slots |-> IF r = 1 THEN PROCEED ELSE "none"]
         /\ wake = [r \in Slots |-> 0]
         /\ buffer_messages = [r \in Slots |-> <<>>]
         /\ response = [r \in Slots |->
                          IF r = 1 THEN [NoResponse EXCEPT !.flow_status = PROCEED]
                          ELSE NoResponse]
         /\ cleanup = NoCleanup
         /\ sink = <<>>
         /\ atPush = [r \in Slots |->
                        IF r <= n THEN [buffered |-> 1..(r - 1), pending |-> 1..(r - 1), at |-> Horizon]
                        ELSE NotPushed]
         /\ lastCmd = [c \in Chats |-> IF c = "c1" THEN "lpush" ELSE "none"]
         /\ calls = [r \in Slots |-> IF r = 1 THEN [NoCalls EXCEPT !.arbiter = 1] ELSE NoCalls]
         /\ pushed = [c \in Chats |->
                        IF c = "c1"
                        THEN [i \in 1..n |-> json_dumps(map_webhook_to_message(ws[i]))]
                        ELSE <<>>]
         /\ events = 0

NextBurst ==
  \/ \E r \in Slots : DrainRead(r)
  \/ \E r \in Slots : DrainDelete(r)

SpecBurst == InitBurst /\ [][NextBurst]_vars

(* ----------------------------- properties ------------------------------ *)
ChatOf(r) == message[r].chat_id
Instant(ts) == ts.wall - ts.off

\* Request r takes an arbitration step, and request r has entered
\* process_buffer_messages.
Arbitrates(r) == pc[r] \in {"check", "sleep"} /\ pc'[r] # pc[r]
Consolidates(r) == calls[r].drains >= 1

\* Every timestamp received so far parses, so no step has hit a fault.
NoFault == \A r \in Requests : pc[r] # "idle" => message[r].timestamp.ok

\* C1: whenever the buffer is not empty and its oldest message (the last
\* element) is not the caller's, the decision is SUPERSEDED.
C1_Leadership ==
  [][\A r \in Requests :
       (/\ Arbitrates(r)
        /\ NoFault
        /\ redis[ChatOf(r)] # <<>>
        /\ json_loads(Last(redis[ChatOf(r)])).message_id # message[r].message_id)
       => flow_status'[r] = SUPERSEDED]_vars

\* C2: of two requests whose messages were in the buffer together, at most
\* one enters the consolidation.
C2_SingleConsolidation ==
  \A r1, r2 \in Requests :
    (NoFault /\ r1 \in atPush[r2].buffered) => ~(Consolidates(r1) /\ Consolidates(r2))

\* C3: a decision taken while the caller's message is the only one buffered
\* is PROCEED when more than 3 seconds passed since its timestamp, else WAIT.
C3_TimingRule ==
  [][\A r \in Requests :
       (/\ Arbitrates(r)
        /\ redis[ChatOf(r)] = <<json_dumps(message[r])>>
        /\ message[r].timestamp.ok)
       => flow_status'[r] =
            IF now - Instant(message[r].timestamp) > 3 THEN PROCEED ELSE WAIT]_vars

\* The only buffered message is exactly 3 seconds old and its request was
\* just told to wait.
C3_Witness ==
  \E r \in Requests :
    /\ pc[r] = "sleep" /\ wake[r] = now + SleepFor
    /\ redis[ChatOf(r)] = <<json_dumps(message[r])>>
    /\ message[r].timestamp.ok
    /\ now - Instant(message[r].timestamp) = 3

\* C4: the DEL of a drain removes only messages its LRANGE has read.
C4_AtomicDrain ==
  [][\A r \in Requests :
       (NoFault /\ pc[r] = "delete" /\ pc'[r] = "done")
       => ids(redis[ChatOf(r)]) \subseteq ids(buffer_messages[r])]_vars

\* C5: when every request has returned, every buffer is empty and every
\* pushed message is part of an entry handed to the sink.
C5_EventualConsolidation ==
  (NoFault /\ \A r \in Requests : pc[r] = "done")
  => /\ \A c \in Chats : redis[c] = <<>>
     /\ \A r \in Requests : \E k \in 1..Len(sink) : r \in ids(sink[k].read)

\* C6: a request is arbitrated only after its push, at most twice, sleeps at
\* most once and only after a first WAIT, ends on a second WAIT without
\* draining, and always returns.
C6_Counts ==
  \A r \in Requests :
    /\ calls[r].arbiter <= 2 /\ calls[r].sleeps <= 1 /\ calls[r].drains <= 1
    /\ calls[r].arbiter >= 1 => (pc[r] # "idle" /\ message[r] # NoMessage)
    /\ pc[r] = "idle" => calls[r] = NoCalls
    /\ calls[r].arbiter = 2 <=> (calls[r].sleeps = 1 /\ pc[r] # "sleep")
    /\ pc[r] = "sleep" => calls[r] = [arbiter |-> 1, sleeps |-> 1, drains |-> 0]
    /\ (pc[r] = "done" /\ flow_status[r] = WAIT)
       => calls[r] = [arbiter |-> 2, sleeps |-> 1, drains |-> 0]
    /\ pc[r] \in {"delete", "drain"} \/ calls[r].drains = 1 => flow_status[r] = PROCEED

\* C6: the per-request counts above always hold, and every received request
\* eventually returns.
C6_BoundedLifecycle ==
  /\ []C6_Counts
  /\ \A r \in Requests : (pc[r] # "idle") ~> (pc[r] = "done")

\* A request that waited, was told to wait again, and returned without a drain.
C6_Witness ==
  \E r \in Requests :
    /\ pc[r] = "done" /\ flow_status[r] = WAIT
    /\ calls[r] = [arbiter |-> 2, sleeps |-> 1, drains |-> 0]
    /\ redis[ChatOf(r)] # <<>>

\* C7: when A and then B are pushed for a chat, each within a second after
\* its timestamp, B while A is still waiting, B never consolidates and a
\* consolidation by A holds both.
C7_ScenarioAB ==
  \A a, b \in Requests :
    (/\ NoFault
     /\ a \in atPush[b].pending
     /\ atPush[a].buffered = {} /\ atPush[b].buffered = {a}
     /\ atPush[a].at - Instant(message[a].timestamp) \in {0, 1}
     /\ atPush[b].at - Instant(message[b].timestamp) \in {0, 1}
     /\ Instant(message[a].timestamp) < Instant(message[b].timestamp)
     /\ atPush[a].at < atPush[b].at)
    => /\ ~Consolidates(b)
       /\ \A k \in 1..Len(sink) : ids(sink[k].read) = {a, b}

\* Permutations of 1..n, and the payload of the entries of a list taken in
\* the order f.
Perms(n) == {f \in [1..n -> 1..n] : \A i, j \in 1..n : i # j => f[i] # f[j]}

Quoted(s) == [i \in 1..Len(s) |-> IF s[i] = Q THEN BT ELSE s[i]]

RECURSIVE Lines(_)
Lines(parts) ==
  IF Len(parts) = 0 THEN <<>>
  ELSE IF Len(parts) = 1 THEN Head(parts)
  ELSE Head(parts) \o <<NL>> \o Lines(Tail(parts))

TimeOrdered(read, f) ==
  \A i, j \in 1..Len(read) :
    i < j => \/ Instant(read[f[i]][4]) < Instant(read[f[j]][4])
             \/ (Instant(read[f[i]][4]) = Instant(read[f[j]][4]) /\ f[i] < f[j])

\* C8: the fragments of every entry handed to the sink are in ascending
\* order of timestamp, equal timestamps in the order of the list read.
C8_Ordering ==
  \A k \in 1..Len(sink) :
    LET read == sink[k].read
    IN \E f \in Perms(Len(read)) :
         /\ TimeOrdered(read, f)
         /\ sink[k].content =
              Lines([i \in 1..Len(read) |-> Quoted(message[read[f[i]][1]].content)])

\* Three messages pushed with timestamps T1, T2, T3, T3 < T1 < T2, were
\* consolidated.
C8_Witness ==
  /\ Len(sink) = 1
  /\ LET read == sink[1].read
     IN /\ Len(read) = 3
        /\ Instant(read[1][4]) < Instant(read[3][4])
        /\ Instant(read[3][4]) < Instant(read[2][4])
        /\ read[1][3] # read[2][3] /\ read[2][3] # read[3][3] /\ read[1][3] # read[3][3]

\* C9: draining N pushed text messages hands over one entry made of the N
\* contents, each once, quotes turned into backticks, joined by newlines.
C9_RoundTrip ==
  LET n == Cardinality({r \in Slots : pc[r] # "idle"})
  IN (pc[1] = "done" /\ \A r \in 1..n : message[r].timestamp.ok)
     => /\ Len(sink) = 1
        /\ Len(sink[1].read) = n
        /\ \E f \in Perms(n) :
             sink[1].content = Lines([i \in 1..n |-> Quoted(message[f[i]].content)])

\* Three messages, one of them with two quotes, were drained into one entry.
C9_Witness ==
  /\ Len(sink) = 1
  /\ Len(sink[1].read) = 3
  /\ \E r \in 1..3 : message[r].content = <<Q, "a", Q>>
  /\ \E r \in 1..3 : message[r].content = <<"b", NL, BT, BS, "n">>

\* C10: a DEL leaves the list empty, and a drain that follows a drain of the
\* chat with no push in between reads nothing.
C10_DrainIdempotence ==
  [][\A r \in Requests :
       /\ (pc[r] = "delete" /\ pc'[r] = "done") => redis'[ChatOf(r)] = <<>>
       /\ (pc[r] = "drain" /\ pc'[r] = "delete" /\ lastCmd[ChatOf(r)] = "del")
          => buffer_messages'[r] = <<>> /\ redis'[ChatOf(r)] = <<>>]_vars

\* A drain handed messages of a chat to the sink and the next drain of the
\* chat, with no push in between, has read an empty list.
C10_Witness ==
  \E r \in Requests :
    /\ pc[r] = "delete" /\ buffer_messages[r] = <<>>
    /\ lastCmd[ChatOf(r)] = "del"
    /\ \E k \in 1..Len(sink) : sink[k].read[1][2] = ChatOf(r)

\* The arbitration of request r hits a fault: the LRANGE fails, an element
\* of the list is not a Message, or the timestamp of the newest element does
\* not parse.
ArbiterFault(r) ==
  \/ ~redis_up
  \/ \E i \in 1..Len(redis[ChatOf(r)]) : Len(redis[ChatOf(r)][i]) # 4
  \/ /\ redis[ChatOf(r)] # <<>>
     /\ \A i \in 1..Len(redis[ChatOf(r)]) : Len(redis[ChatOf(r)][i]) = 4
     /\ ~redis[ChatOf(r)][1][4].ok

\* C11: an arbitration that hits a fault decides PROCEED, and the request
\* goes on to the consolidation without an error response.
C11_FailOpen ==
  [][\A r \in Requests :
       (Arbitrates(r) /\ ArbiterFault(r))
       => /\ flow_status'[r] = PROCEED
          /\ pc'[r] = "drain"
          /\ response'[r].status = "none"
          /\ response'[r].flow_status = PROCEED]_vars

\* A request whose own message, less than 3 seconds old, is the only one
\* buffered was arbitrated while the Redis was down and goes on to drain.
C11_Witness ==
  \E r \in Requests :
    /\ pc[r] = "drain" /\ flow_status[r] = PROCEED
    /\ ~redis_up
    /\ redis[ChatOf(r)] = <<json_dumps(message[r])>>
    /\ message[r].timestamp.ok
    /\ now - Instant(message[r].timestamp) <= 3

\* C12: a step of a request (push, arbitration, drain, with or without a
\* fault) changes neither the list of another chat, nor the decision an
\* arbitration for another chat would take, nor the position, decision or
\* response of a request of another chat.
C12_ChatIndependence ==
  [][\A r \in Requests :
       pc'[r] # pc[r]
       => /\ \A d \in Chats :
               d # message'[r].chat_id
               => /\ redis'[key(d)] = redis[key(d)]
                  /\ check_message_flow(redis_up', lrange(redis'[key(d)]), now')
                       = check_message_flow(redis_up, lrange(redis[key(d)]), now)
          /\ \A q \in Requests :
               (pc[q] # "idle" /\ ChatOf(q) # message'[r].chat_id)
               => /\ pc'[q] = pc[q]
                  /\ flow_status'[q] = flow_status[q]
                  /\ buffer_messages'[q] = buffer_messages[q]
                  /\ response'[q] = response[q]]_vars

\* A request of one chat has failed in its consolidation while a request of
\* another chat sleeps with its message buffered.
C12_Witness ==
  \E r, q \in Requests :
    /\ ChatOf(r) # ChatOf(q)
    /\ pc[r] = "done" /\ response[r].status = "error" /\ calls[r].drains = 1
    /\ pc[q] = "sleep" /\ flow_status[q] = WAIT
    /\ redis[key(ChatOf(q))] = <<json_dumps(message[q])>>

\* C13: the last_message of a successful consolidation is a message of the
\* list read whose timestamp no message of the list exceeds; among the
\* messages of that timestamp it is the one read last (pushed first).
C13_Representative ==
  \A k \in 1..Len(sink) :
    LET read == sink[k].read
        r == sink[k].by
    IN pc[r] = "done"
       => /\ response[r].status = "success"
          /\ \E i \in 1..Len(read) :
               /\ read[i][1] = response[r].last_message
               /\ \A j \in 1..Len(read) :
                    \/ Instant(read[j][4]) < Instant(read[i][4])
                    \/ (Instant(read[j][4]) = Instant(read[i][4]) /\ j <= i)

\* Three messages were consolidated by the request of the first; the one
\* returned is the second pushed, neither the drainer's nor the newest.
C13_Witness ==
  /\ Len(sink) = 1 /\ sink[1].by = 1 /\ pc[1] = "done"
  /\ Len(sink[1].read) = 3
  /\ response[1].last_message = 2
  /\ Instant(message[2].timestamp) > Instant(message[1].timestamp)
  /\ Instant(message[2].timestamp) > Instant(message[3].timestamp)

\* C14: an arbitration that reads an empty list decides PROCEED, and a
\* drain that has read an empty list and deleted the key fails with the
\* empty-buffer fault, hands nothing to the sink, and leaves every list and
\* every other request as they were.
C14_EmptyBufferPath ==
  [][\A r \in Requests :
       /\ (Arbitrates(r) /\ redis_up /\ redis[key(ChatOf(r))] = <<>>)
          => flow_status'[r] = PROCEED
       /\ (pc[r] = "delete" /\ pc'[r] = "done" /\ redis_up /\ buffer_messages[r] = <<>>)
          => /\ response'[r] = HTTPException("empty")
             /\ sink' = sink
             /\ redis' = redis
             /\ \A q \in Requests \ {r} : pc'[q] = pc[q] /\ response'[q] = response[q]]_vars

\* C15: a decision taken on a list of several messages is PROCEED when more
\* than 3 seconds passed since the timestamp of its first element, the
\* message pushed last, and WAIT otherwise.
C15_ElapsedFromNewest ==
  [][\A r \in Requests :
       (/\ Arbitrates(r)
        /\ Len(redis[key(ChatOf(r))]) >= 2
        /\ redis[key(ChatOf(r))][1][4].ok)
       => flow_status'[r] =
            IF now - Instant(redis[key(ChatOf(r))][1][4]) > 3 THEN PROCEED ELSE WAIT]_vars

\* A request was told to proceed on a list of two whose newest element, of
\* the other request, is more than 3 seconds old, while its own message, which
\* has the greatest timestamp of the list, is not.
C15_Witness ==
  \E r \in Requests :
    /\ pc[r] = "drain" /\ flow_status[r] = PROCEED
    /\ Len(redis[key(ChatOf(r))]) = 2
    /\ redis[key(ChatOf(r))][1][1] # r
    /\ redis[key(ChatOf(r))][2] = json_dumps(message[r])
    /\ redis[key(ChatOf(r))][1][4].ok /\ message[r].timestamp.ok
    /\ now - Instant(redis[key(ChatOf(r))][1][4]) > 3
    /\ now - Instant(message[r].timestamp) <= 3

Reverse(list) == [i \in 1..Len(list) |-> list[Len(list) + 1 - i]]

\* C16: the list of every chat holds exactly the elements pushed to it since
\* its last DEL (of a drain or of a cleanup), the newest first, and the
\* LRANGE of an arbitration or of a drain returns that list and leaves it
\* as it is.
C16_Listing == \A c \in Chats : redis[key(c)] = Reverse(pushed[key(c)])

\* C16: the listing above holds in every state, and every read returns the
\* list and leaves it unchanged.
C16_BufferOrder ==
  /\ []C16_Listing
  /\ [][\A r \in Requests :
          /\ Arbitrates(r) => redis' = redis
          /\ (pc[r] = "drain" /\ pc'[r] = "delete")
             => /\ buffer_messages'[r] = Reverse(pushed[key(ChatOf(r))])
                /\ redis' = redis]_vars

\* After a drain of the chat handed the first message to the sink, the
\* second message and then an element of another client were pushed.
C16_Witness ==
  /\ Len(sink) = 1
  /\ sink[1].read = <<json_dumps(message[1])>>
  /\ pc[2] # "idle" /\ ChatOf(2) = ChatOf(1)
  /\ redis[key(ChatOf(1))] = <<Garbage, json_dumps(message[2])>>

\* C17: no message is part of two entries handed to the sink.
C17_NoDuplicate ==
  \A k1, k2 \in 1..Len(sink) :
    k1 # k2 => ids(sink[k1].read) \cap ids(sink[k2].read) = {}

\* The messages among the elements of a list.
elements(list) == {list[i] : i \in {j \in 1..Len(list) : Len(list[j]) = 4}}

\* C18: when a drain fails on the list it read (an element that is not a
\* Message, a timestamp that does not parse), the key is deleted, the
\* messages read are in no list and in no entry of the sink, and the request
\* is answered with the processing error.
C18_DrainBeforeValidation ==
  [][\A r \in Requests :
       (/\ pc[r] = "delete" /\ pc'[r] = "done"
        /\ redis_up
        /\ \/ \E i \in 1..Len(buffer_messages[r]) : Len(buffer_messages[r][i]) # 4
           \/ \E i \in 1..Len(buffer_messages[r]) : ~buffer_messages[r][i][4].ok)
       => /\ redis'[key(ChatOf(r))] = <<>>
          /\ \A c \in Chats : elements(redis'[key(c)]) \cap elements(buffer_messages[r]) = {}
          /\ \A k \in 1..Len(sink') :
               elements(sink'[k].read) \cap elements(buffer_messages[r]) = {}
          /\ response'[r].status = "error"
          /\ response'[r].detail \in {"json", "parse"}]_vars

\* What holds of the response of every request that has returned.
C19_Responses ==
  \A r \in Requests :
    pc[r] = "done"
    => /\ response[r].status \in {"success", "error"}
       /\ response[r].status = "success"
          => (calls[r].arbiter >= 1 /\ response[r].flow_status = flow_status[r])
       /\ response[r].last_message # 0
          <=> /\ flow_status[r] = PROCEED
              /\ response[r].status = "success"
              /\ \E k \in 1..Len(sink) : sink[k].by = r
       /\ flow_status[r] \in {WAIT, SUPERSEDED}
          => (calls[r].drains = 0 /\ response[r].status = "success")

\* C19: a returned request reports the decision of its last arbitration, it
\* carries a last message exactly when that decision is PROCEED and its
\* consolidation succeeded, and a request that ends in WAIT has not drained
\* and returns with every list unchanged.
C19_FinalDecision ==
  /\ []C19_Responses
  /\ [][\A r \in Requests :
          (pc'[r] = "done" /\ pc[r] # "done" /\ flow_status'[r] \in {WAIT, SUPERSEDED})
          => redis' = redis]_vars

\* A request that was told to wait, then to proceed, has consolidated and
\* reports the second decision and a last message.
C19_Witness ==
  \E r \in Requests :
    /\ pc[r] = "done" /\ response[r].status = "success"
    /\ calls[r] = [arbiter |-> 2, sleeps |-> 1, drains |-> 1]
    /\ response[r].flow_status = PROCEED
    /\ response[r].last_message # 0

====
